---- MODULE Spec2Model ----
(***************************************************************************)
(* Model of aitios-cli's src/run.rs: the resolution of log destinations    *)
(* (log_arg_to_log_path), their aggregation (canonical_log_file_paths),    *)
(* the assembly and installation of the logging backend                    *)
(* (configure_logging, init_logging, init_logging_fallback) and run().     *)
(*                                                                         *)
(* A string is a sequence of text chunks; "/" is the path separator and    *)
(* "{datetime}" the placeholder.  A path (std::path::Path) is a record     *)
(* [abs, comps] of its components as Path::components() yields them.  A    *)
(* canonical path is the sequence of names below the root.                 *)
(***************************************************************************)
EXTENDS Integers, Sequences, FiniteSets, TLC

VARIABLES
    fs,            \* the filesystem: [dirs, files, links, ro, cwd]
    datetime,      \* the timestamp token of this run
    termAvail,     \* whether a terminal can be opened by TermLogger::new
    logger,        \* the process-wide logging backend (log crate's global)
    pc,            \* position inside run() / canonical_log_file_paths
    occurrences,   \* arg_matches.occurrences_of("log")
    nvalues,       \* number of values left in arg_matches.values_of("log")
    additional,    \* number of entries left in additional_logs
    log_files,     \* the Vec<Result<PathBuf, Error>> of canonical_log_file_paths
    calls,         \* history of log_arg_to_log_path calls, in call order
    log_paths,     \* result of canonical_log_file_paths, then the paths left to open
    loggers,       \* the Vec<Box<SharedLogger>> built by configure_logging
    installs,      \* history of logger installation attempts made by run()
    outcome        \* what run() returned, and whether the simulation ran

vars == <<fs, datetime, termAvail, logger, pc, occurrences, nvalues, additional,
          log_files, calls, log_paths, loggers, installs, outcome>>

-----------------------------------------------------------------------------
(* Bounds of the model *)

\* most explicit and additional destinations of one aggregation
MaxEntries == 2
\* most occurrences of the log flag beyond its values
MaxExtra == 2
\* most symlinks followed in one resolution before ELOOP
MaxLinks == 3

-----------------------------------------------------------------------------
(* Strings and paths *)

Front(s) == SubSeq(s, 1, Len(s) - 1)

Last(s) == s[Len(s)]

RECURSIVE Concat(_)
\* the text of a sequence of chunks
Concat(chunks) ==
    IF chunks = <<>> THEN "" ELSE Head(chunks) \o Concat(Tail(chunks))

\* str::replace("{datetime}", datetime)
Replace(arg, dt) ==
    [i \in 1..Len(arg) |-> IF arg[i] = "{datetime}" THEN dt ELSE arg[i]]

RECURSIVE Segments(_, _)
\* the texts between the separators of a string
Segments(arg, cur) ==
    IF arg = <<>> THEN <<Concat(cur)>>
    ELSE IF Head(arg) = "/" THEN <<Concat(cur)>> \o Segments(Tail(arg), <<>>)
    ELSE Segments(Tail(arg), Append(cur, Head(arg)))

RECURSIVE DropDots(_)
\* repeated separators and interior "." are no components
DropDots(segs) ==
    IF segs = <<>> THEN <<>>
    ELSE IF Head(segs) \in {"", "."} THEN DropDots(Tail(segs))
    ELSE <<Head(segs)>> \o DropDots(Tail(segs))

\* Path::components(): a root, a leading "." of a relative path, "..", names
PathOf(arg) ==
    LET segs == Segments(arg, <<>>)
        isAbs == arg # <<>> /\ Head(arg) = "/"
    IN  [abs |-> isAbs,
         comps |-> IF ~isAbs /\ Head(segs) = "."
                   THEN <<".">> \o DropDots(Tail(segs))
                   ELSE DropDots(segs)]

\* Path::parent(): None for the empty path and for a root
HasParent(path) == path.comps # <<>>

Parent(path) == [abs |-> path.abs, comps |-> Front(path.comps)]

\* parent.as_os_str().is_empty()
IsEmptyPath(path) == ~path.abs /\ path.comps = <<>>

\* Path::file_name(): None when the path ends in ".."
HasFileName(path) == path.comps # <<>> /\ Last(path.comps) \notin {".", ".."}

FileName(path) == Last(path.comps)

\* PathBuf::push of a path onto a canonical path
Push(base, path) ==
    IF path.abs THEN path.comps ELSE base \o DropDots(path.comps)

\* synthesize_datetime_log_filename
synthesize_datetime_log_filename(dt) == "aitios-log-" \o dt \o ".log"

-----------------------------------------------------------------------------
(* The filesystem *)

Exists(f, p) == p \in f.dirs \/ p \in f.files \/ p \in DOMAIN f.links

Ok(p) == [ok |-> TRUE, path |-> p, err |-> "none"]

Fail(e) == [ok |-> FALSE, path |-> <<>>, err |-> e]

RECURSIVE Resolve(_, _, _, _)
\* path resolution from the directory cur, following symlinks
Resolve(f, cur, rest, fuel) ==
    IF rest = <<>> THEN Ok(cur)
    ELSE IF cur \in f.files THEN Fail("NotADirectory")
    ELSE LET c == Head(rest)
             p == Append(cur, c)
         IN  IF c = "." THEN Resolve(f, cur, Tail(rest), fuel)
             ELSE IF c = ".." THEN
                 Resolve(f, IF cur = <<>> THEN <<>> ELSE Front(cur), Tail(rest), fuel)
             ELSE IF p \in DOMAIN f.links THEN
                 IF fuel = 0 THEN Fail("Loop")
                 ELSE Resolve(f, IF f.links[p].abs THEN <<>> ELSE cur,
                              f.links[p].comps \o Tail(rest), fuel - 1)
             ELSE IF p \in f.dirs \/ p \in f.files THEN Resolve(f, p, Tail(rest), fuel)
             ELSE Fail("NotFound")

\* stat(2) / realpath(3) of a path
Lookup(f, path) ==
    IF IsEmptyPath(path) THEN Fail("NotFound")
    ELSE Resolve(f, IF path.abs THEN <<>> ELSE f.cwd, path.comps, MaxLinks)

\* a lookup that found a member of the set S
FoundIn(r, S) == r.ok /\ r.path \in S

\* Path::is_dir
is_dir(f, path) == FoundIn(Lookup(f, path), f.dirs)

\* Path::is_file
is_file(f, path) == FoundIn(Lookup(f, path), f.files)

\* Path::canonicalize
canonicalize(f, path) == Lookup(f, path)

FsOk(f) == [ok |-> TRUE, fs |-> f, err |-> "none"]

FsErr(f, e) == [ok |-> FALSE, fs |-> f, err |-> e]

\* mkdir(2) of the entry name in the looked-up directory par
MkdirIn(f, par, name) ==
    IF ~par.ok THEN FsErr(f, par.err)
    ELSE IF par.path \in f.files THEN FsErr(f, "NotADirectory")
    ELSE IF name \in {".", ".."} \/ Exists(f, Append(par.path, name)) THEN
        FsErr(f, "AlreadyExists")
    ELSE IF par.path \in f.ro THEN FsErr(f, "PermissionDenied")
    ELSE FsOk([f EXCEPT !.dirs = @ \cup {Append(par.path, name)}])

\* mkdir(2): the new filesystem, or the error
Mkdir(f, path) ==
    IF path.comps = <<>> THEN
        FsErr(f, IF path.abs THEN "AlreadyExists" ELSE "NotFound")
    ELSE MkdirIn(f, Resolve(f, IF path.abs THEN <<>> ELSE f.cwd,
                            Front(path.comps), MaxLinks),
                 Last(path.comps))

\* create_dir_all after the parents were made: mkdir again, or it is there
CreateLast(up, path, second) ==
    IF second.ok THEN second
    ELSE IF is_dir(up.fs, path) THEN FsOk(up.fs)
    ELSE FsErr(up.fs, second.err)

RECURSIVE create_dir_all(_, _)

\* create_dir_all after its parent was handled with the result up
CreateAfterParent(up, path) ==
    IF ~up.ok THEN up ELSE CreateLast(up, path, Mkdir(up.fs, path))

\* create_dir_all after the first mkdir ended with the result first
CreateAfterFirst(f, path, first) ==
    IF first.ok THEN first
    ELSE IF first.err # "NotFound" THEN
        IF is_dir(f, path) THEN FsOk(f) ELSE first
    ELSE IF ~HasParent(path) THEN FsErr(f, "Other")
    ELSE CreateAfterParent(create_dir_all(f, Parent(path)), path)

\* std::fs::create_dir_all
create_dir_all(f, path) ==
    IF IsEmptyPath(path) THEN FsOk(f) ELSE CreateAfterFirst(f, path, Mkdir(f, path))

-----------------------------------------------------------------------------
(* The destination normalizer *)

RetOk(p, f) == [kind |-> "Ok", path |-> p, err |-> <<>>, fs |-> f]

\* an Err value returned to the caller
RetErr(e, f) == [kind |-> "Err", path |-> <<>>, err |-> e, fs |-> f]

\* unwrap() of a None or of an Err: the thread panics
Panic(e, f) == [kind |-> "panic", path |-> <<>>, err |-> e, fs |-> f]

\* DirArm without the push of the default file name
DirArmNoDefault(f, c, dt) ==
    IF ~c.ok THEN RetErr(<<"io", c.err>>, f) ELSE RetOk(c.path, f)

\* lines 259-261: canonicalize()?, then push the default file name
DirArm(f, c, dt) ==
    IF ~c.ok THEN RetErr(<<"io", c.err>>, f)
    ELSE RetOk(Push(c.path, PathOf(<<synthesize_datetime_log_filename(dt)>>)), f)

\* line 264: the canonical form of an existing regular file
FileArm(f, c) ==
    IF ~c.ok THEN RetErr(<<"io", c.err>>, f) ELSE RetOk(c.path, f)

\* CwdArm that leaves the name relative
CwdArmRelative(f, c, path) ==
    IF ~c.ok THEN RetErr(<<"io", c.err>>, f) ELSE RetOk(DropDots(path.comps), f)

\* lines 270-272: a one-level relative path goes below the working directory
CwdArm(f, c, path) ==
    IF ~c.ok THEN RetErr(<<"io", c.err>>, f) ELSE RetOk(Push(c.path, path), f)

\* lines 277-279 and 284-286: the canonical parent, then file_name().unwrap()
ParentArm(f, c, path) ==
    IF ~c.ok THEN RetErr(<<"io", c.err>>, f)
    ELSE IF ~HasFileName(path) THEN Panic(<<"unwrap", "file_name">>, f)
    ELSE RetOk(Append(c.path, FileName(path)), f)

\* CreateArm without the push of the file name
CreateArmNoFileName(made, path) ==
    IF ~made.ok THEN Panic(<<"unwrap", made.err>>, made.fs)
    ELSE FileArm(made.fs, canonicalize(made.fs, Parent(path)))

\* the result r with its path created as a file
Touched(r) ==
    IF r.kind = "Ok" THEN [r EXCEPT !.fs = [r.fs EXCEPT !.files = @ \cup {r.path}]]
    ELSE r

\* CreateArm that creates the log file as well as its parent
CreateArmTouch(made, path) ==
    IF ~made.ok THEN Panic(<<"unwrap", made.err>>, made.fs)
    ELSE Touched(ParentArm(made.fs, canonicalize(made.fs, Parent(path)), path))

\* lines 283-286: create_dir_all(parent).unwrap(), then as for an existing parent
CreateArm(made, path) ==
    IF ~made.ok THEN Panic(<<"unwrap", made.err>>, made.fs)
    ELSE ParentArm(made.fs, canonicalize(made.fs, Parent(path)), path)

\* lines 257-291: the arms of log_arg_to_log_path for the substituted string
Arms(sub, path, dt, f) ==
    IF is_dir(f, path) THEN DirArm(f, canonicalize(f, path), dt)
    ELSE IF is_file(f, path) THEN FileArm(f, canonicalize(f, path))
    ELSE IF HasParent(path) /\ IsEmptyPath(Parent(path)) THEN
        CwdArm(f, canonicalize(f, [abs |-> TRUE, comps |-> f.cwd]), path)
    ELSE IF HasParent(path) /\ is_dir(f, Parent(path)) THEN
        ParentArm(f, canonicalize(f, Parent(path)), path)
    ELSE IF HasParent(path) THEN CreateArm(create_dir_all(f, Parent(path)), path)
    ELSE RetErr(<<"cannot be resolved", Concat(sub)>>, f)

\* log_arg_to_log_path(arg, datetime) on the filesystem f
log_arg_to_log_path(arg, dt, f) ==
    Arms(Replace(arg, dt), PathOf(Replace(arg, dt)), dt, f)

-----------------------------------------------------------------------------
(* Aggregation: canonical_log_file_paths *)

\* the test of line 233 with <= for <
NeedsDefaultOffByOne(lf, occ) == Len(lf) <= occ

\* "more log arguments than log file names": the test of line 233
NeedsDefault(lf, occ) == Len(lf) < occ

\* a collect that drops the Err entries and keeps the rest
CollectOkOnly(lf) ==
    [kind |-> "Ok",
     set |-> {lf[i].path : i \in {j \in 1..Len(lf) : lf[j].kind = "Ok"}},
     err |-> <<>>]

RECURSIVE FirstErr(_)
\* the first Err of a sequence of results that holds one
FirstErr(lf) == IF Head(lf).kind = "Err" THEN Head(lf) ELSE FirstErr(Tail(lf))

\* collect::<Result<HashSet<PathBuf>, Error>>()
CollectResult(lf) ==
    IF \E i \in 1..Len(lf) : lf[i].kind = "Err"
    THEN [kind |-> "Err", set |-> {}, err |-> FirstErr(lf).err]
    ELSE [kind |-> "Ok", set |-> {lf[i].path : i \in 1..Len(lf)}, err |-> <<>>]

\* where canonical_log_file_paths continues after its explicit values
AfterDefault(add) == IF add > 0 THEN "injected" ELSE "collect"

AfterExplicit(nv, lf, occ, add) ==
    IF nv > 0 THEN "explicit"
    ELSE IF NeedsDefault(lf, occ) THEN "default"
    ELSE AfterDefault(add)

-----------------------------------------------------------------------------
(* Sinks and the logging backend *)

RECURSIVE OpenTarget(_, _, _)

\* opening the entry name of the looked-up directory par
OpenIn(f, par, name, fuel) ==
    IF ~par.ok THEN par
    ELSE IF par.path \notin f.dirs THEN Fail("NotADirectory")
    ELSE IF Append(par.path, name) \in DOMAIN f.links THEN
        IF fuel = 0 THEN Fail("Loop")
        ELSE OpenTarget(f, (IF f.links[Append(par.path, name)].abs
                            THEN <<>> ELSE par.path)
                           \o f.links[Append(par.path, name)].comps, fuel - 1)
    ELSE Ok(Append(par.path, name))

\* the file that opening the path p for writing creates or truncates
OpenTarget(f, p, fuel) ==
    IF p = <<>> THEN Ok(<<>>)
    ELSE OpenIn(f, Resolve(f, <<>>, Front(p), MaxLinks), Last(p), fuel)

\* File::create of the open target t
CreateFile(f, t) ==
    IF ~t.ok THEN FsErr(f, t.err)
    ELSE IF t.path \in f.dirs THEN FsErr(f, "IsADirectory")
    ELSE IF t.path \notin f.files /\ Front(t.path) \in f.ro THEN
        FsErr(f, "PermissionDenied")
    ELSE FsOk([f EXCEPT !.files = @ \cup {t.path}])

\* the file, once the parent directories were made with the result made
CreateIn(made, p) ==
    IF ~made.ok THEN made ELSE CreateFile(made.fs, OpenTarget(made.fs, p, MaxLinks))

\* files::create_file_recursively: the parent directories, then the file
create_file_recursively(f, p) ==
    IF p = <<>> THEN FsErr(f, "IsADirectory")
    ELSE CreateIn(create_dir_all(f, [abs |-> TRUE, comps |-> Front(p)]), p)

\* nothing => Warn, -v => Info, -vv => Debug
ConsoleLevel(verbose) ==
    IF verbose = 0 THEN "Warn" ELSE IF verbose = 1 THEN "Info" ELSE "Debug"

NoLogger == [kind |-> "none", console |-> "none", sinks |-> {}]

\* a backend installed by other code of the process
ForeignLogger == [kind |-> "foreign", console |-> "none", sinks |-> {}]

\* CombinedLogger::init: log::set_boxed_logger succeeds once per process
CombinedLoggerInit(cur, ls) ==
    IF cur.kind # "none" THEN [ok |-> FALSE, logger |-> cur]
    ELSE [ok |-> TRUE,
          logger |-> [kind |-> "combined", console |-> ls[1].level,
                      sinks |-> {ls[i].path : i \in 2..Len(ls)}]]

\* a fallback that installs its console logger at Info
FallbackAtInfo(cur, term) ==
    IF ~term \/ cur.kind # "none" THEN [ok |-> FALSE, logger |-> cur]
    ELSE [ok |-> TRUE, logger |-> [kind |-> "term", console |-> "Info", sinks |-> {}]]

\* TermLogger::init(LevelFilter::Warn, ..): needs a terminal and no backend yet
init_logging_fallback(cur, term) ==
    IF ~term \/ cur.kind # "none" THEN [ok |-> FALSE, logger |-> cur]
    ELSE [ok |-> TRUE, logger |-> [kind |-> "term", console |-> "Warn", sinks |-> {}]]

-----------------------------------------------------------------------------
(* Inputs *)

Datetimes == {"T1", "T2"}

\* a working directory /w with a subdirectory and nothing else
FsPlain ==
    [dirs |-> {<<>>, <<"w">>, <<"w", "d">>},
     files |-> {},
     links |-> <<>>,
     ro |-> {},
     cwd |-> <<"w">>]

\* /w with a log file, a directory that refuses new entries, and symlinks to
\* the subdirectory, to the log file (one of them under the default log name
\* of the timestamp T1) and to a file that does not exist yet
FsFull ==
    [dirs |-> {<<>>, <<"w">>, <<"w", "d">>, <<"w", "ro">>},
     files |-> {<<"w", "log1.log">>},
     links |-> (<<"w", "ld">> :> [abs |-> FALSE, comps |-> <<"d">>])
               @@ (<<"w", "lf">> :> [abs |-> TRUE, comps |-> <<"w", "log1.log">>])
               @@ (<<"w", "dangle">> :> [abs |-> FALSE, comps |-> <<"log2.log">>])
               @@ (<<"w", "aitios-log-T1.log">> :>
                       [abs |-> FALSE, comps |-> <<"log1.log">>]),
     ro |-> {<<"w", "ro">>},
     cwd |-> <<"w">>]

Filesystems == {FsPlain, FsFull}

\* raw destinations given to canonical_log_file_paths
RawArgs ==
    {<<"log1.log">>,
     <<".", "/", ".", "/", "log1.log">>,
     <<"log2.log">>,
     <<".">>,
     <<"..">>,
     <<"ld">>,
     <<"lf">>,
     <<"dangle">>,
     <<"n-", "{datetime}", "/", "m", "/", "c.log">>,
     <<"log1.log", "/", "x.log">>,
     <<"ro", "/", "n", "/", "x.log">>,
     <<"ld", "/", "x.log">>,
     <<"/", "w", "/", "d", "/", "x.log">>,
     <<>>}

\* raw destinations given on the command line or by the simulation spec
RunArgs ==
    {<<"log1.log">>,
     <<".">>,
     <<"n-", "{datetime}", "/", "m", "/", "c.log">>,
     <<"log1.log", "/", "x.log">>,
     <<"ro", "/", "x.log">>,
     <<>>}

\* occurrences_of("log") for m values: none without the flag, else at least one
OccurrenceCounts(m) == IF m = 0 THEN 0..MaxExtra ELSE 1..(m + MaxExtra)

NoOutcome == [result |-> "none", simulated |-> FALSE, failed |-> "none"]

-----------------------------------------------------------------------------
(* run() *)

Init ==
    /\ fs \in Filesystems
    /\ datetime \in Datetimes
    /\ termAvail \in BOOLEAN
    /\ logger \in {NoLogger, ForeignLogger}
    /\ pc = "parse"
    /\ occurrences = 0
    /\ nvalues = 0
    /\ additional = 0
    /\ log_files = <<>>
    /\ calls = <<>>
    /\ log_paths = {}
    /\ loggers = <<>>
    /\ installs = <<>>
    /\ outcome = NoOutcome

\* get_matches_safe() returned Ok(matched)
ParseArgs ==
    /\ pc = "parse"
    /\ \E m \in 0..MaxEntries :
        \E k \in OccurrenceCounts(m) :
            /\ nvalues' = m
            /\ occurrences' = k
    /\ pc' = "thread_pool"
    /\ UNCHANGED <<fs, datetime, termAvail, logger, additional, log_files, calls,
                   log_paths, loggers, installs, outcome>>

\* get_matches_safe() returned Err: fallback logger, then help/version or an error
ParseFailed ==
    /\ pc = "parse"
    /\ \E help \in BOOLEAN :
        LET fb == init_logging_fallback(logger, termAvail)
        IN  /\ logger' = fb.logger
            /\ installs' = Append(installs, [by |-> "TermLogger", ok |-> fb.ok])
            /\ outcome' = [outcome EXCEPT
                             !.result = IF fb.ok /\ help THEN "Ok" ELSE "Err",
                             !.failed = "cli"]
    /\ pc' = "done"
    /\ UNCHANGED <<fs, datetime, termAvail, occurrences, nvalues, additional,
                   log_files, calls, log_paths, loggers>>

\* init_thread_pool(matched)?
InitThreadPool ==
    /\ pc = "thread_pool"
    /\ \E ok \in BOOLEAN :
        IF ok THEN pc' = "load" /\ outcome' = outcome
        ELSE pc' = "done" /\ outcome' = [outcome EXCEPT !.result = "Err"]
    /\ UNCHANGED <<fs, datetime, termAvail, logger, occurrences, nvalues, additional,
                   log_files, calls, log_paths, loggers, installs>>

\* init_simulation_runner(matched)?; spec.log is an Option<PathBuf>
InitSimulationRunner ==
    /\ pc = "load"
    /\ \E ok \in BOOLEAN :
        IF ok
        THEN /\ \E n \in 0..1 : n + nvalues <= MaxEntries /\ additional' = n
             /\ pc' = "console"
             /\ outcome' = outcome
        ELSE /\ additional' = additional
             /\ pc' = "done"
             /\ outcome' = [outcome EXCEPT !.result = "Err"]
    /\ UNCHANGED <<fs, datetime, termAvail, logger, occurrences, nvalues,
                   log_files, calls, log_paths, loggers, installs>>

\* configure_logging: vec![TermLogger::new(level, ..).ok_or(..)?]
NewTermLogger ==
    /\ pc = "console"
    /\ IF termAvail
       THEN /\ \E verbose \in 0..2 :
                 loggers' = <<[kind |-> "term", level |-> ConsoleLevel(verbose),
                               path |-> <<>>]>>
            /\ pc' = AfterExplicit(nvalues, log_files, occurrences, additional)
            /\ outcome' = outcome
       ELSE /\ loggers' = loggers
            /\ pc' = "fallback"
            /\ outcome' = [outcome EXCEPT !.failed = "console"]
    /\ UNCHANGED <<fs, datetime, termAvail, logger, occurrences, nvalues, additional,
                   log_files, calls, log_paths, installs>>

\* the Result pushed onto log_files for the call result r
Pushed(r) == [kind |-> r.kind, path |-> r.path, err |-> r.err]

\* the effect of one call of log_arg_to_log_path that ended with r
Called(src, arg, r) ==
    /\ calls' = Append(calls, [src |-> src, arg |-> arg, before |-> fs, res |-> r])
    /\ fs' = r.fs
    /\ IF r.kind = "panic"
       THEN /\ log_files' = log_files
            /\ pc' = "panicked"
            /\ outcome' = [outcome EXCEPT !.result = "panic"]
       ELSE /\ log_files' = Append(log_files, Pushed(r))
            /\ pc' = IF src = "explicit"
                     THEN AfterExplicit(nvalues - 1, log_files', occurrences, additional)
                     ELSE IF src = "default" THEN AfterDefault(additional)
                     ELSE AfterDefault(additional - 1)
            /\ outcome' = outcome

\* one call of log_arg_to_log_path made by canonical_log_file_paths
Normalize(src, arg) == Called(src, arg, log_arg_to_log_path(arg, datetime, fs))

\* line 225: the next value of the log flag
NormalizeExplicit(args) ==
    /\ pc = "explicit"
    /\ \E arg \in args : Normalize("explicit", arg)
    /\ nvalues' = nvalues - 1
    /\ UNCHANGED <<datetime, termAvail, logger, occurrences, additional, log_paths,
                   loggers, installs>>

\* lines 233-238: one more log below the working directory, with the default name
NormalizeDefault ==
    /\ pc = "default"
    /\ Normalize("default", <<synthesize_datetime_log_filename(datetime)>>)
    /\ UNCHANGED <<datetime, termAvail, logger, occurrences, nvalues, additional,
                   log_paths, loggers, installs>>

\* lines 242-246: the next of the additional logs
NormalizeInjected(args) ==
    /\ pc = "injected"
    /\ \E arg \in args : Normalize("injected", arg)
    /\ additional' = additional - 1
    /\ UNCHANGED <<datetime, termAvail, logger, occurrences, nvalues, log_paths,
                   loggers, installs>>

\* line 249, and the ? of line 200 when called by configure_logging
Collect(standalone) ==
    /\ pc = "collect"
    /\ log_paths' = CollectResult(log_files)
    /\ IF standalone THEN pc' = "returned" /\ outcome' = outcome
       ELSE IF log_paths'.kind = "Err"
       THEN pc' = "fallback" /\ outcome' = [outcome EXCEPT !.failed = "aggregation"]
       ELSE /\ pc' = IF log_paths'.set = {} THEN "install" ELSE "open"
            /\ outcome' = outcome
    /\ UNCHANGED <<fs, datetime, termAvail, logger, occurrences, nvalues, additional,
                   log_files, calls, loggers, installs>>

\* the effect of create_file_recursively(p) that ended with opened
Opened(p, opened) ==
    /\ fs' = opened.fs
    /\ IF opened.ok
       THEN /\ loggers' = Append(loggers, [kind |-> "write", level |-> "Debug",
                                           path |-> p])
            /\ log_paths' = [log_paths EXCEPT !.set = @ \ {p}]
            /\ pc' = IF log_paths.set = {p} THEN "install" ELSE "open"
            /\ outcome' = outcome
       ELSE /\ loggers' = loggers
            /\ log_paths' = log_paths
            /\ pc' = "fallback"
            /\ outcome' = [outcome EXCEPT !.failed = "open"]

\* lines 201-205: open the next log file and push its WriteLogger
OpenLog ==
    /\ pc = "open"
    /\ \E p \in log_paths.set : Opened(p, create_file_recursively(fs, p))
    /\ UNCHANGED <<datetime, termAvail, logger, occurrences, nvalues, additional,
                   log_files, calls, installs>>

\* InstallCombined that goes on to the fallback whatever init returned
InstallCombinedThenFallback ==
    /\ pc = "install"
    /\ logger' = CombinedLoggerInit(logger, loggers).logger
    /\ installs' = Append(installs, [by |-> "CombinedLogger",
                                     ok |-> CombinedLoggerInit(logger, loggers).ok])
    /\ pc' = "fallback"
    /\ outcome' = outcome
    /\ UNCHANGED <<fs, datetime, termAvail, occurrences, nvalues, additional,
                   log_files, calls, log_paths, loggers>>

\* line 207: CombinedLogger::init(loggers)
InstallCombined ==
    /\ pc = "install"
    /\ LET done == CombinedLoggerInit(logger, loggers)
       IN  /\ logger' = done.logger
           /\ installs' = Append(installs, [by |-> "CombinedLogger", ok |-> done.ok])
           /\ IF done.ok THEN pc' = "simulate" /\ outcome' = outcome
              ELSE pc' = "fallback" /\ outcome' = [outcome EXCEPT !.failed = "install"]
    /\ UNCHANGED <<fs, datetime, termAvail, occurrences, nvalues, additional,
                   log_files, calls, log_paths, loggers>>

\* line 167: .or_else(|_| init_logging_fallback()), and the ? of line 26
Fallback ==
    /\ pc = "fallback"
    /\ LET fb == init_logging_fallback(logger, termAvail)
       IN  /\ logger' = fb.logger
           /\ installs' = Append(installs, [by |-> "TermLogger", ok |-> fb.ok])
           /\ IF fb.ok THEN pc' = "simulate" /\ outcome' = outcome
              ELSE pc' = "done" /\ outcome' = [outcome EXCEPT !.result = "Err"]
    /\ UNCHANGED <<fs, datetime, termAvail, occurrences, nvalues, additional,
                   log_files, calls, log_paths, loggers>>

\* lines 30-38: runner.run(), Ok(())
RunSimulation ==
    /\ pc = "simulate"
    /\ pc' = "done"
    /\ outcome' = [outcome EXCEPT !.result = "Ok", !.simulated = TRUE]
    /\ UNCHANGED <<fs, datetime, termAvail, logger, occurrences, nvalues, additional,
                   log_files, calls, log_paths, loggers, installs>>

Next ==
    \/ ParseArgs
    \/ ParseFailed
    \/ InitThreadPool
    \/ InitSimulationRunner
    \/ NewTermLogger
    \/ NormalizeExplicit(RunArgs)
    \/ NormalizeDefault
    \/ NormalizeInjected(RunArgs)
    \/ Collect(FALSE)
    \/ OpenLog
    \/ InstallCombined
    \/ Fallback
    \/ RunSimulation

Spec == Init /\ [][Next]_vars

-----------------------------------------------------------------------------
(* canonical_log_file_paths called on its own, as the tests call it *)

InitAgg ==
    /\ fs \in Filesystems
    /\ datetime \in Datetimes
    /\ termAvail = TRUE
    /\ logger = NoLogger
    /\ \E m \in 0..MaxEntries :
        /\ nvalues = m
        /\ occurrences \in OccurrenceCounts(m)
        /\ additional \in 0..(MaxEntries - m)
    /\ pc = AfterExplicit(nvalues, <<>>, occurrences, additional)
    /\ log_files = <<>>
    /\ calls = <<>>
    /\ log_paths = {}
    /\ loggers = <<>>
    /\ installs = <<>>
    /\ outcome = NoOutcome

NextAgg ==
    \/ NormalizeExplicit(RawArgs)
    \/ NormalizeDefault
    \/ NormalizeInjected(RawArgs)
    \/ Collect(TRUE)

SpecAgg == InitAgg /\ [][NextAgg]_vars

-----------------------------------------------------------------------------
(* Properties *)

Calls == DOMAIN calls

\* the string and the path of call i after the substitution of {datetime}
SubAt(i) == Replace(calls[i].arg, datetime)

PathAt(i) == PathOf(SubAt(i))

\* the calls made for the source src
CallsOf(src) == {i \in Calls : calls[i].src = src}

\* canonical_log_file_paths has normalized every explicit value and passed line 238
PastDefault == pc \in {"injected", "collect", "returned"}

\* C2: a default destination is normalized exactly once when the log flag occurs
\* more often than it has values, however much more often, and never otherwise;
\* without log flag and additional logs the returned set is empty.
C2_DefaultSynthesis ==
    /\ Cardinality(CallsOf("default")) <= 1
    /\ \A i \in CallsOf("default") :
          calls[i].arg = <<"aitios-log-" \o datetime \o ".log">>
    /\ PastDefault =>
          Cardinality(CallsOf("default")) =
              IF occurrences > Cardinality(CallsOf("explicit")) THEN 1 ELSE 0
    /\ (pc = "returned" /\ occurrences = 0 /\ calls = <<>>) =>
          log_paths = [kind |-> "Ok", set |-> {}, err |-> <<>>]

\* the flag occurred at least two times more often than it had values, and one
\* default destination was normalized
C2_Witness ==
    /\ pc = "returned"
    /\ Cardinality(CallsOf("explicit")) >= 1
    /\ occurrences >= Cardinality(CallsOf("explicit")) + 2
    /\ Cardinality(CallsOf("default")) = 1

\* the file a member of the returned set is opened as
TargetOf(p) == OpenTarget(fs, p, MaxLinks)

\* C3: the returned set holds exactly one member per distinct target file: no two
\* different members are the same file, whichever sources produced them.
C3_OneMemberPerTarget ==
    (pc = "returned" /\ log_paths.kind = "Ok") =>
        \A p, q \in log_paths.set :
            (p # q /\ TargetOf(p).ok /\ TargetOf(q).ok) => TargetOf(p) # TargetOf(q)

\* the calls of the aggregation come in the order explicit, default, injected
SourceRank(src) == IF src = "explicit" THEN 1 ELSE IF src = "default" THEN 2 ELSE 3

InSourceOrder ==
    \A i, j \in Calls : i < j => SourceRank(calls[i].src) <= SourceRank(calls[j].src)

FailedCalls == {i \in Calls : calls[i].res.kind = "Err"}

\* the first call that returned an Err
FirstFailed == CHOOSE i \in FailedCalls : \A j \in FailedCalls : i <= j

\* configure_logging is past the ? of line 200
PastCollect == pc \in {"open", "install", "fallback", "simulate", "done"}

\* C4: when a call returned an Err, canonical_log_file_paths returns the Err of the
\* first such call in the order explicit, default, injected and no set; no file is
\* opened, no WriteLogger is built and CombinedLogger::init is not called.
C4_FailFast ==
    /\ InSourceOrder
    /\ (FailedCalls # {} /\ PastCollect) =>
          /\ log_paths = [kind |-> "Err", set |-> {}, err |-> calls[FirstFailed].res.err]
          /\ \A i \in DOMAIN loggers : loggers[i].kind # "write"
          /\ fs.files = calls[1].before.files
          /\ \A i \in DOMAIN installs : installs[i].by # "CombinedLogger"
          /\ logger.kind # "combined"

\* a later entry failed after an earlier one had succeeded, and run() went on
C4_Witness ==
    /\ pc = "done"
    /\ Len(calls) >= 2
    /\ calls[1].res.kind = "Ok"
    /\ FailedCalls # {}

\* C5: every failure of log_arg_to_log_path to resolve a destination is an Err
\* value returned to its caller; no call ends the program.
C5_FailuresAreErrValues ==
    /\ pc # "panicked"
    /\ \A i \in Calls : calls[i].res.kind \in {"Ok", "Err"}

\* C6: two successive successful calls for the same raw destination return the
\* same path; the filesystem of the second call is the one the first call left.
C6_Idempotent ==
    \A i \in Calls : \A j \in Calls :
        (j = i + 1 /\ calls[i].arg = calls[j].arg
           /\ calls[i].res.kind = "Ok" /\ calls[j].res.kind = "Ok") =>
            /\ calls[j].before = calls[i].res.fs
            /\ calls[j].res.path = calls[i].res.path

\* the first of two such calls created the parent, the second found it
C6_Witness ==
    \E i \in Calls : \E j \in Calls :
        /\ j = i + 1
        /\ calls[i].arg = calls[j].arg
        /\ calls[i].res.kind = "Ok" /\ calls[j].res.kind = "Ok"
        /\ calls[i].res.fs.dirs # calls[i].before.dirs
        /\ calls[j].res.fs = calls[j].before
        /\ is_dir(calls[j].before, Parent(PathAt(j)))

\* C7: for an existing directory the returned path is the default file name
\* aitios-log-<timestamp>.log below the canonical form of the directory.
C7_DirectoryTarget ==
    \A i \in Calls :
        is_dir(calls[i].before, PathAt(i)) =>
            /\ calls[i].res.kind = "Ok"
            /\ calls[i].res.path # <<>>
            /\ Front(calls[i].res.path) = canonicalize(calls[i].before, PathAt(i)).path
            /\ Last(calls[i].res.path) = "aitios-log-" \o datetime \o ".log"

\* a directory reached through a symlink was given
C7_Witness ==
    \E i \in Calls :
        /\ calls[i].arg = <<"ld">>
        /\ is_dir(calls[i].before, PathAt(i))
        /\ calls[i].res.path = <<"w", "d", "aitios-log-" \o datetime \o ".log">>

\* the relative or absolute path of the first n components of path
Prefix(path, n) == [abs |-> path.abs, comps |-> SubSeq(path.comps, 1, n)]

\* call i was given a file that does not exist below a parent that does not exist
MissingParent(i) ==
    /\ HasFileName(PathAt(i))
    /\ ~Lookup(calls[i].before, PathAt(i)).ok
    /\ ~IsEmptyPath(Parent(PathAt(i)))
    /\ Lookup(calls[i].before, Parent(PathAt(i))).err = "NotFound"

\* C8: after a successful call for a missing file below a missing parent, the
\* parent and its ancestors are directories, the returned path is the original
\* file name below the canonical parent, and no file was created.
C8_ParentCreated ==
    \A i \in Calls :
        (MissingParent(i) /\ calls[i].res.kind = "Ok") =>
            /\ \A n \in 1..(Len(PathAt(i).comps) - 1) :
                  is_dir(calls[i].res.fs, Prefix(PathAt(i), n))
            /\ calls[i].res.path # <<>>
            /\ Front(calls[i].res.path) =
                  canonicalize(calls[i].res.fs, Parent(PathAt(i))).path
            /\ Last(calls[i].res.path) = Last(PathAt(i).comps)
            /\ calls[i].res.fs.files = calls[i].before.files
            /\ calls[i].res.fs.links = calls[i].before.links
            /\ ~Exists(calls[i].res.fs, calls[i].res.path)

\* two levels of directories were created for n-<timestamp>/m/c.log
C8_Witness ==
    \E i \in Calls :
        /\ MissingParent(i)
        /\ calls[i].res.kind = "Ok"
        /\ calls[i].res.path = <<"w", "n-" \o datetime, "m", "c.log">>
        /\ <<"w", "n-" \o datetime, "m">> \in calls[i].res.fs.dirs \ calls[i].before.dirs
        /\ <<"w", "n-" \o datetime>> \in calls[i].res.fs.dirs \ calls[i].before.dirs

\* call i was given one path component and no separator
SingleComponent(i) ==
    /\ SubAt(i) # <<>>
    /\ \A n \in DOMAIN SubAt(i) : SubAt(i)[n] # "/"

\* the working directory's canonical form with the string of call i appended
BelowCwd(i) ==
    Append(canonicalize(calls[i].before, [abs |-> TRUE, comps |-> calls[i].before.cwd]).path,
           Concat(SubAt(i)))

\* C9 as stated: every destination of a single component is returned as the
\* canonical working directory with that name appended.
C9_Original ==
    \A i \in Calls :
        SingleComponent(i) => (calls[i].res.kind = "Ok" /\ calls[i].res.path = BelowCwd(i))

\* the name of call i is a symlink in the working directory to an existing file
LinkToFile(i) ==
    /\ is_file(calls[i].before, PathAt(i))
    /\ Append(calls[i].before.cwd, Concat(SubAt(i))) \in DOMAIN calls[i].before.links

\* C9 amended: a destination of a single component that is neither an existing
\* directory nor a symlink to an existing file is returned as the canonical
\* working directory with that name appended.
C9_SingleComponent ==
    \A i \in Calls :
        (SingleComponent(i) /\ ~is_dir(calls[i].before, PathAt(i)) /\ ~LinkToFile(i)) =>
            (calls[i].res.kind = "Ok" /\ calls[i].res.path = BelowCwd(i))

\* a name that does not exist yet was given
C9_Witness ==
    \E i \in Calls :
        /\ calls[i].arg = <<"log1.log">>
        /\ ~Exists(calls[i].before, <<"w", "log1.log">>)
        /\ calls[i].res.path = <<"w", "log1.log">>

\* configure_logging returned an Err inside init_logging, and init_logging returned
PrimaryFailed ==
    /\ outcome.failed \in {"console", "aggregation", "open", "install"}
    /\ pc \in {"simulate", "done"}

\* the backend init_logging_fallback installs
WarnConsole == [kind |-> "term", console |-> "Warn", sinks |-> {}]

\* C1 as stated: whenever the primary setup fails, the console-only Warn logger is
\* installed and no error reaches run().
C1_Original ==
    PrimaryFailed => (logger = WarnConsole /\ outcome.result # "Err")

\* C1 amended: whenever the primary setup returns an error, the fallback is tried
\* once; with a terminal and no backend installed yet it installs the console-only
\* Warn logger and the simulation runs; otherwise it fails as well, run() returns
\* its error and the simulation does not run.
C1_FallbackAfterFailure ==
    PrimaryFailed =>
        /\ installs # <<>>
        /\ Last(installs).by = "TermLogger"
        /\ Cardinality({i \in DOMAIN installs : installs[i].by = "TermLogger"}) = 1
        /\ Last(installs).ok <=> (termAvail /\ logger.kind # "foreign")
        /\ Last(installs).ok => (logger = WarnConsole /\ outcome.result # "Err")
        /\ ~Last(installs).ok =>
              /\ logger.kind \in {"none", "foreign"}
              /\ pc = "done"
              /\ outcome.result = "Err"
              /\ ~outcome.simulated

\* a log file could not be opened, the fallback logger was installed and the
\* simulation ran
C1_Witness ==
    /\ outcome.failed = "open"
    /\ logger = WarnConsole
    /\ outcome.simulated
    /\ outcome.result = "Ok"

Installed == {i \in DOMAIN installs : installs[i].ok}

\* C10 as stated: every execution of run() installs a backend exactly once.
C10_Original ==
    pc = "done" => Cardinality(Installed) = 1

\* C10 amended: run() installs a backend at most once, and exactly once when it
\* runs the simulation or returns Ok; the fallback is tried only after the
\* command line or the primary configuration failed.
C10_InstalledOnce ==
    /\ Cardinality(Installed) <= 1
    /\ \A i \in DOMAIN installs :
          installs[i].by = "TermLogger" => outcome.failed # "none"
    /\ (logger.kind = "combined") <=>
          (\E i \in Installed : installs[i].by = "CombinedLogger")
    /\ (logger.kind = "term") <=> (\E i \in Installed : installs[i].by = "TermLogger")
    /\ (pc = "simulate" \/ outcome.simulated \/ outcome.result = "Ok") =>
          /\ Cardinality(Installed) = 1
          /\ logger.kind \in {"combined", "term"}

\* the combined backend with a file sink was installed and the simulation ran
C10_Witness ==
    /\ outcome.simulated
    /\ logger.kind = "combined"
    /\ logger.sinks # {}
    /\ Len(installs) = 1

====
